---- MODULE Spec2Model ----
(***************************************************************************)
(* Model of civ5-mod/update_md5.py: the synchronizer that rewrites the     *)
(* md5 attributes of the <File> entries of VoxDeorum.modinfo so that they  *)
(* match the files they reference.                                         *)
(*                                                                         *)
(* The manifest text is a sequence of tokens in document order.  A token   *)
(* is either a stretch of text FILE_RE does not match (copied by re.sub)   *)
(* or one match of FILE_RE with its five groups g1..g5.  A hash is a       *)
(* sequence of HashLen hex characters (32 in the program).  Referenced     *)
(* files are other files than the manifest itself.                         *)
(***************************************************************************)
EXTENDS Integers, Sequences, FiniteSets, TLC

\* ---- bounds ----
MaxEntries == 2
HashLen == 1
NumContents == 2
MaxRuns == 2

\* ---- alphabet of the [0-9A-Fa-f] class: one digit, one letter in both cases
HexChars == {"1", "a", "A"}
Hashes == [1..HashLen -> HexChars]

\* str.upper() on one character and on a hash
UpperChar(c) == IF c = "a" THEN "A" ELSE c
Upper(h) == [i \in 1..Len(h) |-> UpperChar(h[i])]

\* the bytes a file can hold
Contents == 0..(NumContents - 1)

RECURSIVE Pow2(_)
Pow2(n) == IF n = 0 THEN 1 ELSE 2 * Pow2(n - 1)

\* hashlib.md5(bytes).hexdigest(): lowercase hex, a function of the bytes
hexdigest(c) == [i \in 1..HashLen |-> IF (c \div Pow2(i - 1)) % 2 = 0 THEN "1" ELSE "a"]

\* md5_of(path) once the bytes were read
md5_of(c) == Upper(hexdigest(c))

\* ---- the directory of the manifest ----
Paths == {"a.xml", "b.xml"}
FileStates == {[st |-> "missing", bytes |-> 0], [st |-> "unreadable", bytes |-> 0]}
                \cup {[st |-> "file", bytes |-> c] : c \in Contents}

\* Path.exists(): true for anything present, also when it cannot be read
exists(f) == f.st # "missing"

\* ---- tokens of the manifest text ----
Text(s) == [kind |-> "text", s |-> s]
G1 == "<File md5=\""
G5 == "</File>"
\* the manifests considered import b.xml and do not import a.xml
ImportOf(p) == IF p = "a.xml" THEN "\" import=\"0\">" ELSE "\" import=\"1\">"
Entries == {[kind |-> "entry", g1 |-> G1, g2 |-> h, g3 |-> ImportOf(p), g4 |-> p, g5 |-> G5] :
              h \in Hashes, p \in Paths}
IsEntry(t) == t.kind = "entry"

\* text around the entries; the second gap holds an element FILE_RE rejects
Gap(k) == IF k = 0 THEN Text("<Files>\n  ")
          ELSE IF k = 1 THEN Text("\n  <File md5=\"xyz\" import=\"2\">c.xml</File>\n  ")
          ELSE Text("\n</Files>\n")
Layout(es) == [k \in 1..(2 * Len(es) + 1) |->
                 IF k % 2 = 1 THEN Gap(IF k = 1 THEN 0 ELSE IF k = 2 * Len(es) + 1 THEN 2 ELSE 1)
                 ELSE es[k \div 2]]
EntrySeqs == UNION {[1..n -> Entries] : n \in 0..MaxEntries}
Docs == {Layout(es) : es \in EntrySeqs}
NoEntries == Layout(<<>>)

\* ---- output lines ----
NoHash == <<>>
MissingLine(p) == [kind |-> "MISSING", path |-> p, old |-> NoHash, new |-> NoHash, n |-> 0]
UpdateLine(p, o, h) == [kind |-> "UPDATE", path |-> p, old |-> o, new |-> h, n |-> 0]
UpdatedSummary(k) == [kind |-> "Updated", path |-> "", old |-> NoHash, new |-> NoHash, n |-> k]
UpToDateSummary == [kind |-> "AllUpToDate", path |-> "", old |-> NoHash, new |-> NoHash, n |-> 0]

VARIABLES
  disk,       \* text of MODINFO on disk
  readable,   \* whether MODINFO.read_text succeeds
  files,      \* the files of MODINFO.parent, by relative path
  run,        \* number of the current run of main()
  pc,         \* position in main(): start, sub, done, fatal
  text,       \* local text
  pos,        \* token FILE_RE.sub is at
  new_text,   \* result of FILE_RE.sub built so far
  updated,    \* nonlocal updated
  out,        \* lines printed by this run
  src,        \* for each line of out, the token that printed it (0: summary)
  counted,    \* tokens for which updated was incremented in this run
  writes,     \* number of MODINFO.write_text calls of this run
  orig,       \* text of MODINFO on disk when this run started
  prev,       \* how the previous run ended: none, done, fatal
  prev_updated \* value of updated when the previous run ended

vars == <<disk, readable, files, run, pc, text, pos, new_text, updated, out,
          src, counted, writes, orig, prev, prev_updated>>

envVars == <<readable, files, prev_updated>>

\* line 22-23: file_path = MODINFO.parent / m.group(4)
file_of(m) == files[m.g4]

\* variant: a missing file resets the recorded hash
unchanged_match_reset(m) == [m EXCEPT !.g2 = md5_of(0)]

\* line 26: return m.group(0)
unchanged_match(m) == m

\* variant: the .upper() of line 28 is left out
old_md5_of_raw(m) == m.g2

\* line 28: old_md5 = m.group(2).upper()
old_md5_of(m) == Upper(m.g2)

\* variant: the recorded hash is compared as written
is_stale_case_sensitive(m, new_md5) == m.g2 # new_md5

\* line 29: old_md5 != new_md5
is_stale(m, new_md5) == old_md5_of(m) # new_md5

\* variant: the match is returned as it was
rebuilt_match_keeps_old(m, new_md5) == m

\* variant: the match is rebuilt only when the hash is stale
rebuilt_match_if_stale(m, new_md5) ==
  IF Upper(m.g2) # new_md5 THEN [m EXCEPT !.g2 = new_md5] ELSE m

\* variant: the import attribute is written as a constant
rebuilt_match_fixed_import(m, new_md5) ==
  [kind |-> "entry", g1 |-> m.g1, g2 |-> new_md5, g3 |-> "\" import=\"1\">",
   g4 |-> m.g4, g5 |-> m.g5]

\* line 32: f"{m.group(1)}{new_md5}{m.group(3)}{m.group(4)}{m.group(5)}"
rebuilt_match(m, new_md5) ==
  [kind |-> "entry", g1 |-> m.g1, g2 |-> new_md5, g3 |-> m.g3, g4 |-> m.g4, g5 |-> m.g5]

\* variant: the manifest is written on every run
should_write_always(u) == TRUE

\* variant: the test of line 36 is inverted
should_write_inverted(u) == u = 0

\* line 36: if updated
should_write(u) == u # 0

\* variant: a single update is reported as none
summary_line_plural(u) == IF u > 1 THEN UpdatedSummary(u) ELSE UpToDateSummary

\* line 38, 40: the summary line
summary_line(u) == IF u # 0 THEN UpdatedSummary(u) ELSE UpToDateSummary


Init ==
  /\ disk \in Docs
  /\ readable \in BOOLEAN
  /\ ~readable => disk = NoEntries   \* the text of an unreadable manifest is never seen
  /\ files \in [Paths -> FileStates]
  /\ run = 1
  /\ pc = "start"
  /\ text = <<>>
  /\ pos = 1
  /\ new_text = <<>>
  /\ updated = 0
  /\ out = <<>>
  /\ src = <<>>
  /\ counted = {}
  /\ writes = 0
  /\ orig = disk
  /\ prev = "none"
  /\ prev_updated = 0

\* line 17-18: text = MODINFO.read_text(); updated = 0
ReadManifest ==
  /\ pc = "start"
  /\ readable
  /\ text' = disk
  /\ updated' = 0
  /\ pos' = 1
  /\ new_text' = <<>>
  /\ pc' = "sub"
  /\ UNCHANGED <<disk, envVars, run, out, src, counted, writes, orig, prev>>

\* line 17: read_text raises, main() ends with the exception
ReadManifestError ==
  /\ pc = "start"
  /\ ~readable
  /\ pc' = "fatal"
  /\ UNCHANGED <<disk, envVars, run, text, pos, new_text, updated, out, src,
                 counted, writes, orig, prev>>

\* line 34: re.sub copies the text between matches
SubCopy ==
  /\ pc = "sub"
  /\ pos <= Len(text)
  /\ ~IsEntry(text[pos])
  /\ new_text' = Append(new_text, text[pos])
  /\ pos' = pos + 1
  /\ UNCHANGED <<disk, envVars, run, pc, text, updated, out, src, counted,
                 writes, orig, prev>>

\* line 24-26: the referenced file does not exist
replace_match_missing ==
  /\ pc = "sub"
  /\ pos <= Len(text)
  /\ IsEntry(text[pos])
  /\ ~exists(file_of(text[pos]))
  /\ out' = Append(out, MissingLine(text[pos].g4))
  /\ src' = Append(src, pos)
  /\ new_text' = Append(new_text, unchanged_match(text[pos]))
  /\ pos' = pos + 1
  /\ UNCHANGED <<disk, envVars, run, pc, text, updated, counted, writes, orig, prev>>

\* variant: the text rebuilt so far is flushed to the manifest before the error leaves
replace_match_error_flushes ==
  /\ pc = "sub"
  /\ pos <= Len(text)
  /\ IsEntry(text[pos])
  /\ file_of(text[pos]).st = "unreadable"
  /\ pc' = "fatal"
  /\ disk' = new_text \o SubSeq(text, pos, Len(text))
  /\ UNCHANGED <<envVars, run, text, pos, new_text, updated, out, src,
                 counted, writes, orig, prev>>

\* line 27, 13: path.read_bytes() raises; the exception leaves re.sub and main()
replace_match_error ==
  /\ pc = "sub"
  /\ pos <= Len(text)
  /\ IsEntry(text[pos])
  /\ file_of(text[pos]).st = "unreadable"
  /\ pc' = "fatal"
  /\ UNCHANGED <<disk, envVars, run, text, pos, new_text, updated, out, src,
                 counted, writes, orig, prev>>

\* line 27-32: the referenced file is read and hashed
replace_match_hash ==
  /\ pc = "sub"
  /\ pos <= Len(text)
  /\ IsEntry(text[pos])
  /\ file_of(text[pos]).st = "file"
  /\ LET m == text[pos]
         new_md5 == md5_of(file_of(m).bytes)
     IN /\ IF is_stale(m, new_md5)
           THEN /\ out' = Append(out, UpdateLine(m.g4, old_md5_of(m), new_md5))
                /\ src' = Append(src, pos)
                /\ updated' = updated + 1
                /\ counted' = counted \cup {pos}
           ELSE UNCHANGED <<out, src, updated, counted>>
        /\ new_text' = Append(new_text, rebuilt_match(m, new_md5))
  /\ pos' = pos + 1
  /\ UNCHANGED <<disk, envVars, run, pc, text, writes, orig, prev>>

\* line 36-40: write the manifest if anything was counted, print the summary
Finish ==
  /\ pc = "sub"
  /\ pos > Len(text)
  /\ IF should_write(updated)
     THEN /\ disk' = new_text
          /\ writes' = writes + 1
     ELSE UNCHANGED <<disk, writes>>
  /\ out' = Append(out, summary_line(updated))
  /\ src' = Append(src, 0)
  /\ pc' = "done"
  /\ UNCHANGED <<envVars, run, text, pos, new_text, updated, counted, orig, prev>>

\* the script is started again on the same directory tree
Rerun ==
  /\ pc \in {"done", "fatal"}
  /\ run < MaxRuns
  /\ run' = run + 1
  /\ prev' = pc
  /\ orig' = disk
  /\ pc' = "start"
  /\ text' = <<>>
  /\ pos' = 1
  /\ new_text' = <<>>
  /\ updated' = 0
  /\ out' = <<>>
  /\ src' = <<>>
  /\ counted' = {}
  /\ writes' = 0
  /\ prev_updated' = updated
  /\ UNCHANGED <<disk, readable, files>>

Next ==
  \/ ReadManifest
  \/ ReadManifestError
  \/ SubCopy
  \/ replace_match_missing
  \/ replace_match_error
  \/ replace_match_hash
  \/ Finish
  \/ Rerun

Spec == Init /\ [][Next]_vars

\* ---- vocabulary of the properties ----
EntryPositions(t) == {i \in 1..Len(t) : IsEntry(t[i])}
Processed == {i \in EntryPositions(text) : i < pos}
HasFile(m) == files[m.g4].st = "file"
IsMissing(m) == files[m.g4].st = "missing"
ActualHash(m) == Upper(hexdigest(files[m.g4].bytes))
SameButHash(a, b) ==
  /\ a.kind = b.kind
  /\ a.g1 = b.g1 /\ a.g3 = b.g3 /\ a.g4 = b.g4 /\ a.g5 = b.g5
\* the recorded hash and the computed hash differ under case-insensitive comparison
Stale(m) == HasFile(m) /\ Upper(m.g2) # ActualHash(m)
\* the recorded hash differs from the computed hash in letter case only
CaseOnly(m) == HasFile(m) /\ Upper(m.g2) = ActualHash(m) /\ m.g2 # ActualHash(m)
LinesOf(i) == {k \in 1..Len(out) : src[k] = i}
UpdateLines == {k \in 1..Len(out) : out[k].kind = "UPDATE"}
SummaryLines == {k \in 1..Len(out) : out[k].kind \in {"Updated", "AllUpToDate"}}

C5_MissingNoOp ==
  /\ \A i \in Processed :
       IsMissing(text[i]) =>
         /\ new_text[i] = text[i]
         /\ Cardinality(LinesOf(i)) = 1
         /\ \A k \in LinesOf(i) : out[k] = MissingLine(text[i].g4)
         /\ i \notin counted
  /\ pc \in {"done", "fatal"} =>
       \A i \in EntryPositions(orig) : IsMissing(orig[i]) => disk[i] = orig[i]
  /\ pc = "done" =>
       \A i \in EntryPositions(orig) : IsMissing(orig[i]) => i \in Processed

C5_Witness ==
  /\ pc = "done"
  /\ writes = 1
  /\ \E i, j \in EntryPositions(orig) :
       i < j /\ IsMissing(orig[i]) /\ j \in counted

\* C6: the manifest is written at most once per run, only after every entry
\* was processed, and exactly when the updated count is greater than zero.
C6_SingleWrite ==
  /\ writes <= 1
  /\ writes = 1 => (pc = "done" /\ pos > Len(text) /\ updated > 0)
  /\ (pc = "done" /\ updated > 0) => writes = 1
  /\ writes = 0 => disk = orig

C6_Witness ==
  /\ pc = "done"
  /\ updated = 0
  /\ writes = 0
  /\ \E i \in EntryPositions(orig) : IsMissing(orig[i])
  /\ \E i \in EntryPositions(orig) : CaseOnly(orig[i])

\* C7: a run that aborts, on the manifest or on a referenced file, leaves the
\* manifest on disk as it was and prints no summary line.
C7_FatalUntouched ==
  pc = "fatal" =>
    /\ disk = orig
    /\ writes = 0
    /\ SummaryLines = {}

C7_Witness ==
  /\ pc = "fatal"
  /\ updated > 0
  /\ pos > 2
  /\ pos < Len(text)

\* C8: a run that completes normally prints exactly one summary line, last;
\* it reports the number of update lines when there are some and all-up-to-date
\* otherwise; the other lines come in the document order of their entries.
C8_OutputShape ==
  /\ Len(src) = Len(out)
  /\ pc # "done" => SummaryLines = {}
  /\ pc = "done" =>
       /\ SummaryLines = {Len(out)}
       /\ out[Len(out)] = IF UpdateLines # {}
                          THEN UpdatedSummary(Cardinality(UpdateLines))
                          ELSE UpToDateSummary
  /\ \A k \in 1..Len(out) :
       out[k].kind \in {"MISSING", "UPDATE"} =>
         /\ src[k] \in EntryPositions(text)
         /\ out[k].path = text[src[k]].g4
         /\ \A j \in 1..(k - 1) : src[j] < src[k]

C8_Witness ==
  /\ pc = "done"
  /\ Len(out) = 3
  /\ out[1].kind = "MISSING"
  /\ out[2].kind = "UPDATE"
  /\ out[3] = UpdatedSummary(1)

\* C9: an entry whose file exists and whose recorded hash differs from the
\* computed one under case-insensitive comparison prints exactly one line with
\* its path, the old hash (in uppercase) and the new hash, is counted once, and
\* is rebuilt around the new uppercase hash; the count is the number of such
\* entries processed.
C9_UpdateStep ==
  /\ \A i \in Processed :
       Stale(text[i]) =>
         /\ Cardinality(LinesOf(i)) = 1
         /\ \A k \in LinesOf(i) :
              out[k] = UpdateLine(text[i].g4, Upper(text[i].g2), ActualHash(text[i]))
         /\ i \in counted
         /\ SameButHash(new_text[i], text[i])
         /\ new_text[i].g2 = ActualHash(text[i])
  /\ pc \in {"sub", "done"} =>
       /\ updated = Cardinality({i \in Processed : Stale(text[i])})
       /\ counted = {i \in Processed : Stale(text[i])}

C9_Witness ==
  /\ pc = "done"
  /\ updated = 2
  /\ \E i \in counted : text[i].g2 # Upper(text[i].g2)

\* C10: a written manifest holds, for every entry whose file exists, exactly
\* the uppercase MD5 of the file, also for entries not counted, and for every
\* entry whose file is missing the matched text; the entries, their order,
\* paths and import flags are those of the text that was read.
C10_WholeRewrite ==
  (pc = "done" /\ writes = 1) =>
    /\ Len(disk) = Len(text)
    /\ \A i \in 1..Len(text) :
         IF ~IsEntry(text[i]) \/ IsMissing(text[i])
         THEN disk[i] = text[i]
         ELSE /\ SameButHash(disk[i], text[i])
              /\ disk[i].g2 = ActualHash(text[i])

C10_Witness ==
  /\ pc = "done"
  /\ writes = 1
  /\ \E i \in EntryPositions(text) : CaseOnly(text[i]) /\ i \notin counted
====
